---- MODULE Spec2Model ----
(***************************************************************************)
(* Betting-odds page of the Tour de France dashboard (src/app.py):         *)
(* convert_american_to_decimal, get_ranked_odds_data and                   *)
(* display_betting_view.                                                   *)
(*                                                                         *)
(* Text is modelled as a sequence of one-character strings so that         *)
(* str.strip, int() and the comparison with 'Alle anderen' are computed    *)
(* rather than assumed.  A Python int is a sign and a magnitude (a digit   *)
(* sequence of any length).  A Python float is modelled by the rational    *)
(* it holds, <<numerator, denominator>> in lowest terms; this is exact     *)
(* where the model uses it: magnitudes of at most MaxExactDigits digits,   *)
(* on which the rounding of (v / 100) + 1 and (100 / abs(v)) + 1 preserves *)
(* order and equality, and negative magnitudes of at least                 *)
(* AbsorbThreshold, where (100 / abs(v)) + 1 rounds to exactly 1.0.        *)
(***************************************************************************)
EXTENDS Integers, Sequences, FiniteSets, TLC

VARIABLES
    pc,                 \* where display_betting_view / get_ranked_odds_data is
    driver,             \* the browser session: "none", "open" or "quit"
    exc,                \* the exception in flight: its type and the step that raised it
    consent,            \* what the cookie-consent step did
    show_more_buttons,  \* number of 'Mehr anzeigen' elements found
    clicked,            \* number of them activated so far
    rider_options,      \* the ms-option.option elements found
    idx,                \* position of the extraction loop in rider_options
    rider_odds,         \* the quotes extracted so far
    ranked_df,          \* the value get_ranked_odds_data returned
    view,               \* what display_betting_view put on the page
    cache,              \* the st.cache_data entry of get_ranked_odds_data
    cache_age,          \* seconds since that entry was stored, at most TTL
    calls               \* runs of display_betting_view so far

vars == <<pc, driver, exc, consent, show_more_buttons, clicked, rider_options,
          idx, rider_odds, ranked_df, view, cache, cache_age, calls>>

cachevars == <<cache, cache_age, calls>>

(***************************************************************************)
(* Bounds of the model.                                                    *)
(***************************************************************************)
MaxOptions == 3
MaxButtons == 2
MaxQuotes == 3
MaxCalls == 3

(***************************************************************************)
(* Text.                                                                   *)
(***************************************************************************)
DigitChars == <<"0", "1", "2", "3", "4", "5", "6", "7", "8", "9">>

Digits == {DigitChars[i] : i \in 1..10}

DigitVal(c) == (CHOOSE i \in 1..10 : DigitChars[i] = c) - 1

RECURSIVE lstrip(_)
lstrip(s) == IF s # <<>> /\ Head(s) = " " THEN lstrip(Tail(s)) ELSE s

RECURSIVE rstrip(_)
rstrip(s) ==
    IF s # <<>> /\ s[Len(s)] = " " THEN rstrip(SubSeq(s, 1, Len(s) - 1)) ELSE s

strip(s) == rstrip(lstrip(s))

(***************************************************************************)
(* int(str), base 10: surrounding whitespace, an optional sign, then       *)
(* digits, single underscores allowed between digits.  Anything else is a  *)
(* ValueError.  The value is [neg, mag], mag without leading zeros, so     *)
(* zero is the empty magnitude.                                            *)
(***************************************************************************)
Returned(x) == [tag |-> "return", val |-> x]

Raised(e) == [tag |-> "raise", val |-> e]

ValueError == "ValueError"

ZeroDivisionError == "ZeroDivisionError"

ValidDigits(b) ==
    /\ b # <<>>
    /\ \A i \in 1..Len(b) : b[i] \in Digits \cup {"_"}
    /\ b[1] # "_"
    /\ b[Len(b)] # "_"
    /\ \A i \in 1..(Len(b) - 1) : ~(b[i] = "_" /\ b[i + 1] = "_")

RECURSIVE DigitValues(_)
DigitValues(b) ==
    IF b = <<>> THEN <<>>
    ELSE IF Head(b) = "_" THEN DigitValues(Tail(b))
    ELSE <<DigitVal(Head(b))>> \o DigitValues(Tail(b))

RECURSIVE StripZeros(_)
StripZeros(m) == IF m # <<>> /\ Head(m) = 0 THEN StripZeros(Tail(m)) ELSE m

RECURSIVE WithoutCommas(_)
WithoutCommas(s) ==
    IF s = <<>> THEN <<>>
    ELSE IF Head(s) = "," THEN WithoutCommas(Tail(s))
    ELSE <<Head(s)>> \o WithoutCommas(Tail(s))

\* int() as if a comma were a digit separator.
int_commas_ignored(s) ==
    LET t == WithoutCommas(strip(s))
        signed == t # <<>> /\ t[1] \in {"+", "-"}
        body == IF signed THEN Tail(t) ELSE t
    IN  IF ValidDigits(body)
        THEN Returned([neg |-> signed /\ t[1] = "-",
                       mag |-> StripZeros(DigitValues(body))])
        ELSE Raised(ValueError)

int(s) ==
    LET t == strip(s)
        signed == t # <<>> /\ t[1] \in {"+", "-"}
        body == IF signed THEN Tail(t) ELSE t
    IN  IF ValidDigits(body)
        THEN Returned([neg |-> signed /\ t[1] = "-",
                       mag |-> StripZeros(DigitValues(body))])
        ELSE Raised(ValueError)

(***************************************************************************)
(* Arithmetic on magnitudes and floats.                                    *)
(***************************************************************************)
MaxExactDigits == 4

RECURSIVE MagValue(_)
MagValue(m) ==
    IF m = <<>> THEN 0 ELSE 10 * MagValue(SubSeq(m, 1, Len(m) - 1)) + m[Len(m)]

\* 900719925474099101: the least v with (100 / v) + 1 == 1.0 in binary64.
AbsorbThreshold ==
    <<9, 0, 0, 7, 1, 9, 9, 2, 5, 4, 7, 4, 0, 9, 9, 1, 0, 1>>

RECURSIVE LexGeq(_, _)
LexGeq(a, b) ==
    IF a = <<>> THEN TRUE
    ELSE IF Head(a) # Head(b) THEN Head(a) > Head(b)
    ELSE LexGeq(Tail(a), Tail(b))

MagGeq(a, b) == Len(a) > Len(b) \/ (Len(a) = Len(b) /\ LexGeq(a, b))

RECURSIVE GCD(_, _)
GCD(a, b) == IF b = 0 THEN a ELSE GCD(b, a % b)

Rat(n, d) == <<n \div GCD(n, d), d \div GCD(n, d)>>

RatLeq(a, b) == a[1] * b[2] <= b[1] * a[2]

RatLess(a, b) == a[1] * b[2] < b[1] * a[2]

\* (american_odds / 100) + 1 for american_odds > 0
PositiveOdds(mag) ==
    CASE Len(mag) <= MaxExactDigits -> Rat(MagValue(mag) + 100, 100)

\* (100 / abs(american_odds)) + 1 for american_odds < 0
NegativeOdds(mag) ==
    CASE Len(mag) <= MaxExactDigits -> Rat(100 + MagValue(mag), MagValue(mag))
      [] MagGeq(mag, AbsorbThreshold) -> <<1, 1>>

(***************************************************************************)
(* convert_american_to_decimal: the outcome is a float, None, or an        *)
(* exception that the except clause (ValueError, TypeError) lets through.  *)
(***************************************************************************)
\* None, in a column of floats (each float a pair), is the empty tuple.
None == <<>>

\* The two formulas on the wrong branches.
convert_branches_swapped(american_odds) ==
    LET parsed == int(american_odds)
        v == parsed.val
    IN  IF parsed.tag = "raise" THEN Returned(None)
        ELSE IF ~v.neg /\ v.mag # <<>> THEN Returned(NegativeOdds(v.mag))
        ELSE IF v.mag = <<>> THEN Raised(ZeroDivisionError)
        ELSE Returned(PositiveOdds(v.mag))

\* No except clause: the ValueError of int() goes to the caller.
convert_without_except(american_odds) ==
    LET parsed == int(american_odds)
        v == parsed.val
    IN  IF parsed.tag = "raise" THEN parsed
        ELSE IF ~v.neg /\ v.mag # <<>> THEN Returned(PositiveOdds(v.mag))
        ELSE IF v.mag = <<>> THEN Raised(ZeroDivisionError)
        ELSE Returned(NegativeOdds(v.mag))

convert_american_to_decimal(american_odds) ==
    LET parsed == int(american_odds)
        v == parsed.val
    IN  IF parsed.tag = "raise" THEN Returned(None)
        ELSE IF ~v.neg /\ v.mag # <<>> THEN Returned(PositiveOdds(v.mag))
        ELSE IF v.mag = <<>> THEN Raised(ZeroDivisionError)
        ELSE Returned(NegativeOdds(v.mag))

(***************************************************************************)
(* The data frame of quotes: a sequence of rows [Rider, Odds].             *)
(***************************************************************************)
AlleAnderen == <<"A", "l", "l", "e", " ", "a", "n", "d", "e", "r", "e", "n">>

RECURSIVE Pick(_, _, _)
Pick(s, I, i) ==
    IF i > Len(s) THEN <<>>
    ELSE (IF i \in I THEN <<s[i]>> ELSE <<>>) \o Pick(s, I, i + 1)

\* keep='last'
drop_duplicates_keep_last(df) ==
    Pick(df, {i \in 1..Len(df) :
                 \A j \in (i + 1)..Len(df) : df[j].Rider # df[i].Rider}, 1)

\* df.drop_duplicates(subset=['Rider']): keep='first'
drop_duplicates(df) ==
    Pick(df, {i \in 1..Len(df) : \A j \in 1..(i - 1) : df[j].Rider # df[i].Rider}, 1)

\* No filter on the name.
FilterNothing(df) == df

\* df_cleaned[df_cleaned['Rider'] != 'Alle anderen']
FilterSentinel(df) ==
    Pick(df, {i \in 1..Len(df) : df[i].Rider # AlleAnderen}, 1)

\* df_final['Odds'].apply(convert_american_to_decimal): row by row, the
\* first exception ends the call.
ApplyConvert(df) ==
    LET out == [i \in 1..Len(df) |-> convert_american_to_decimal(df[i].Odds)]
        bad == {i \in 1..Len(df) : out[i].tag = "raise"}
    IN  IF bad # {}
        THEN Raised(out[CHOOSE i \in bad : \A j \in bad : i <= j].val)
        ELSE Returned([i \in 1..Len(df) |->
                          [Rider |-> df[i].Rider, Odds |-> out[i].val]])

\* df_final.dropna(subset=['Odds'])
dropna(df) == Pick(df, {i \in 1..Len(df) : df[i].Odds # None}, 1)

\* df_final.sort_values(by="Odds", ascending=True): on the few rows of the
\* model the sort is an insertion sort, which keeps equal keys in order.
RECURSIVE Insert(_, _)
Insert(row, sorted) ==
    IF sorted = <<>> THEN <<row>>
    ELSE IF RatLess(row.Odds, Head(sorted).Odds) THEN <<row>> \o sorted
    ELSE <<Head(sorted)>> \o Insert(row, Tail(sorted))

RECURSIVE InsertDescending(_, _)
InsertDescending(row, sorted) ==
    IF sorted = <<>> THEN <<row>>
    ELSE IF RatLess(Head(sorted).Odds, row.Odds) THEN <<row>> \o sorted
    ELSE <<Head(sorted)>> \o InsertDescending(row, Tail(sorted))

\* ascending=False
RECURSIVE sort_values_descending(_)
sort_values_descending(df) ==
    IF df = <<>> THEN <<>>
    ELSE InsertDescending(df[Len(df)],
                          sort_values_descending(SubSeq(df, 1, Len(df) - 1)))

RECURSIVE sort_values(_)
sort_values(df) ==
    IF df = <<>> THEN <<>>
    ELSE Insert(df[Len(df)], sort_values(SubSeq(df, 1, Len(df) - 1)))

\* reset_index, df_final['Rank'] = df_final.index + 1, and the column order
AssignRank(df) ==
    [i \in 1..Len(df) |-> [Rank |-> i, Rider |-> df[i].Rider, Odds |-> df[i].Odds]]

\* The part of get_ranked_odds_data after the scrape.
Normalize(quotes) ==
    IF quotes = <<>> THEN Returned(<<>>)
    ELSE LET applied == ApplyConvert(FilterSentinel(drop_duplicates(quotes)))
         IN  IF applied.tag = "raise" THEN applied
             ELSE Returned(AssignRank(sort_values(dropna(applied.val))))

(***************************************************************************)
(* The page as the browser sees it.  A sub-element lookup either returns   *)
(* its text or raises NoSuchElementException.                              *)
(***************************************************************************)
Rider1 == <<"R", "i", "d", "e", "r", "1">>

Rider2 == <<"R", "i", "d", "e", "r", "2">>

NoSuchElement == Raised("NoSuchElementException")

Option(name, value) == [name |-> name, value |-> value]

PageOptions ==
    { Option(Returned(Rider1), Returned(<<"-", "2", "5", "0">>)),
      Option(Returned(Rider2 \o <<" ">>), Returned(<<" ", "+", "4", "0", "0">>)),
      Option(Returned(AlleAnderen), Returned(<<"+", "1", "0", "0", "0">>)),
      Option(Returned(Rider1), Returned(<<"0">>)),
      Option(NoSuchElement, Returned(<<"+", "4", "0", "0">>)),
      Option(Returned(Rider2), NoSuchElement),
      Option(Returned(Rider2), Returned(<<" ">>)),
      Option(Returned(<<" ", " ">>), Returned(<<"-", "2", "5", "0">>)) }

SeqsUpTo(S, n) == UNION {[1..k -> S] : k \in 0..n}

OptionLists == SeqsUpTo(PageOptions, MaxOptions)

NoException == [type |-> "none", at |-> "none"]

TTL == 86400

NoEntry == [tag |-> "none", val |-> <<>>]

Cached(value) == [tag |-> "value", val |-> value]

Fresh(entry, age) == entry.tag = "value" /\ age < TTL

Exception(type, at) == [type |-> type, at |-> at]

Init ==
    /\ pc = "idle"
    /\ driver = "none"
    /\ exc = NoException
    /\ consent = "none"
    /\ show_more_buttons = 0
    /\ clicked = 0
    /\ rider_options = <<>>
    /\ idx = 1
    /\ rider_odds = <<>>
    /\ ranked_df = <<>>
    /\ view = "none"
    /\ cache = NoEntry
    /\ cache_age = 0
    /\ calls = 0

(***************************************************************************)
(* display_betting_view up to the call of get_ranked_odds_data, which goes *)
(* through @st.cache_data(ttl=86400): an entry younger than the ttl is     *)
(* returned without running the function; an older one is dropped.         *)
(***************************************************************************)
\* The function is run on every call, as without the decorator.
CallUncached ==
    /\ pc = "idle"
    /\ calls' = calls + 1
    /\ pc' = "create"
    /\ UNCHANGED <<driver, exc, consent, show_more_buttons, clicked,
                   rider_options, idx, rider_odds, ranked_df, view, cache,
                   cache_age>>

Call ==
    /\ pc = "idle"
    /\ calls' = calls + 1
    /\ IF Fresh(cache, cache_age)
       THEN /\ ranked_df' = cache.val
            /\ pc' = "returned"
            /\ UNCHANGED <<cache, cache_age>>
       ELSE /\ cache' = NoEntry
            /\ cache_age' = 0
            /\ pc' = "create"
            /\ ranked_df' = ranked_df
    /\ UNCHANGED <<driver, exc, consent, show_more_buttons, clicked,
                   rider_options, idx, rider_odds, view>>

(***************************************************************************)
(* get_ranked_odds_data.                                                   *)
(***************************************************************************)
\* webdriver.Chrome(...), outside the try; then rider_odds = []
CreateDriver ==
    /\ pc = "create"
    /\ \/ /\ driver' = "open"
          /\ rider_odds' = <<>>
          /\ pc' = "get"
          /\ exc' = exc
       \/ /\ exc' = Exception("WebDriverException", "create")
          /\ pc' = "raised"
          /\ UNCHANGED <<driver, rider_odds>>
    /\ UNCHANGED <<consent, show_more_buttons, clicked, rider_options, idx,
                   ranked_df, view>>
    /\ UNCHANGED cachevars

\* driver.get(url)
Navigate ==
    /\ pc = "get"
    /\ \/ pc' = "consent" /\ exc' = exc
       \/ pc' = "finally" /\ exc' = Exception("WebDriverException", "get")
    /\ UNCHANGED <<driver, consent, show_more_buttons, clicked, rider_options,
                   idx, rider_odds, ranked_df, view>>
    /\ UNCHANGED cachevars

\* The consent step: the wait may time out and the click may raise; both
\* are swallowed.
Consent ==
    /\ pc = "consent"
    /\ \E outcome \in {"clicked", "timeout", "click_raised"} : consent' = outcome
    /\ pc' = "find_more"
    /\ UNCHANGED <<driver, exc, show_more_buttons, clicked, rider_options, idx,
                   rider_odds, ranked_df, view>>
    /\ UNCHANGED cachevars

\* driver.find_elements(By.XPATH, show_more_xpath); an exception leaves the
\* inner try.
FindShowMore ==
    /\ pc = "find_more"
    /\ \/ \E n \in 0..MaxButtons : show_more_buttons' = n /\ pc' = "click_more"
       \/ show_more_buttons' = 0 /\ pc' = "find_options"
    /\ UNCHANGED <<driver, exc, consent, clicked, rider_options, idx,
                   rider_odds, ranked_df, view>>
    /\ UNCHANGED cachevars

\* One round of the loop over show_more_buttons; an exception in
\* execute_script leaves the loop and the inner try.
ClickShowMore ==
    /\ pc = "click_more"
    /\ IF clicked < show_more_buttons
       THEN \/ clicked' = clicked + 1 /\ pc' = pc
            \/ clicked' = clicked /\ pc' = "find_options"
       ELSE clicked' = clicked /\ pc' = "find_options"
    /\ UNCHANGED <<driver, exc, consent, show_more_buttons, rider_options, idx,
                   rider_odds, ranked_df, view>>
    /\ UNCHANGED cachevars

\* driver.find_elements(By.CSS_SELECTOR, rider_option_selector), in the outer
\* try only.
FindOptions ==
    /\ pc = "find_options"
    /\ \/ /\ \E opts \in OptionLists : rider_options' = opts
          /\ idx' = 1
          /\ pc' = "extract"
          /\ exc' = exc
       \/ /\ exc' = Exception("WebDriverException", "find_options")
          /\ pc' = "finally"
          /\ UNCHANGED <<rider_options, idx>>
    /\ UNCHANGED <<driver, consent, show_more_buttons, clicked, rider_odds,
                   ranked_df, view>>
    /\ UNCHANGED cachevars

\* The body of the loop over rider_options for one option.
ExtractOne(option, quotes) ==
    IF option.name.tag = "raise" \/ option.value.tag = "raise" THEN quotes
    ELSE LET rider_name == strip(option.name.val)
             odds_value == strip(option.value.val)
         IN  IF rider_name # <<>> /\ odds_value # <<>>
             THEN Append(quotes, [Rider |-> rider_name, Odds |-> odds_value])
             ELSE quotes

\* The try statement around the loop instead of inside it: the first
\* option whose lookup raises ends the loop.
ExtractTryAroundLoop ==
    /\ pc = "extract"
    /\ idx <= Len(rider_options)
    /\ rider_odds' = ExtractOne(rider_options[idx], rider_odds)
    /\ idx' = IF \/ rider_options[idx].name.tag = "raise"
                 \/ rider_options[idx].value.tag = "raise"
              THEN Len(rider_options) + 1
              ELSE idx + 1
    /\ UNCHANGED <<pc, driver, exc, consent, show_more_buttons, clicked,
                   rider_options, ranked_df, view>>
    /\ UNCHANGED cachevars

Extract ==
    /\ pc = "extract"
    /\ idx <= Len(rider_options)
    /\ rider_odds' = ExtractOne(rider_options[idx], rider_odds)
    /\ idx' = idx + 1
    /\ UNCHANGED <<pc, driver, exc, consent, show_more_buttons, clicked,
                   rider_options, ranked_df, view>>
    /\ UNCHANGED cachevars

ExtractDone ==
    /\ pc = "extract"
    /\ idx > Len(rider_options)
    /\ pc' = "finally"
    /\ UNCHANGED <<driver, exc, consent, show_more_buttons, clicked,
                   rider_options, idx, rider_odds, ranked_df, view>>
    /\ UNCHANGED cachevars

\* driver.quit() after the try statement instead of in its finally clause.
QuitAfterTry ==
    /\ pc = "finally"
    /\ IF exc = NoException
       THEN /\ driver' = "quit"
            /\ \/ exc' = exc /\ pc' = "process"
               \/ exc' = Exception("WebDriverException", "quit") /\ pc' = "raised"
       ELSE driver' = driver /\ exc' = exc /\ pc' = "raised"
    /\ UNCHANGED <<consent, show_more_buttons, clicked, rider_options, idx,
                   rider_odds, ranked_df, view>>
    /\ UNCHANGED cachevars

\* finally: driver.quit(), then the exception in flight, if any, goes on.
\* quit itself may raise.
Finally ==
    /\ pc = "finally"
    /\ driver' = "quit"
    /\ \/ /\ exc' = exc
          /\ pc' = IF exc = NoException THEN "process" ELSE "raised"
       \/ /\ exc' = Exception("WebDriverException", "quit")
          /\ pc' = "raised"
    /\ UNCHANGED <<consent, show_more_buttons, clicked, rider_options, idx,
                   rider_odds, ranked_df, view>>
    /\ UNCHANGED cachevars

\* 'Process the scraped data' to the return statement; the value returned
\* is stored by the cache decorator, an exception is not.
Process ==
    /\ pc = "process"
    /\ LET r == Normalize(rider_odds)
       IN  IF r.tag = "return"
           THEN ranked_df' = r.val /\ pc' = "returned" /\ exc' = exc
                /\ cache' = Cached(r.val) /\ cache_age' = 0
           ELSE ranked_df' = ranked_df /\ pc' = "raised"
                /\ exc' = Exception(r.val, "convert")
                /\ UNCHANGED <<cache, cache_age>>
    /\ UNCHANGED <<driver, consent, show_more_buttons, clicked, rider_options,
                   idx, rider_odds, view, calls>>

(***************************************************************************)
(* display_betting_view after the call.                                    *)
(***************************************************************************)
SliderMin == 5

SliderDefault == 15

\* st.slider raises StreamlitAPIException unless min_value <= value <= max_value.
Render ==
    /\ pc = "returned"
    /\ pc' = "done"
    /\ IF ranked_df = <<>>
       THEN view' = "error" /\ exc' = exc
       ELSE IF SliderMin <= SliderDefault /\ SliderDefault <= Len(ranked_df)
            THEN view' = "table" /\ exc' = exc
            ELSE view' = "exception"
                 /\ exc' = Exception("StreamlitAPIException", "slider")
    /\ UNCHANGED <<driver, consent, show_more_buttons, clicked, rider_options,
                   idx, rider_odds, ranked_df>>
    /\ UNCHANGED cachevars

\* An exception out of get_ranked_odds_data: display_betting_view has no
\* handler, so it leaves display_betting_view too.
Propagate ==
    /\ pc = "raised"
    /\ pc' = "done"
    /\ view' = "exception"
    /\ UNCHANGED <<driver, exc, consent, show_more_buttons, clicked,
                   rider_options, idx, rider_odds, ranked_df>>
    /\ UNCHANGED cachevars

(***************************************************************************)
(* The script is run again (a widget was used, a new session was opened):  *)
(* display_betting_view starts afresh, only the cache is kept, and time    *)
(* has passed.                                                             *)
(***************************************************************************)
RerunDelays == {1, TTL - 1, TTL}

Min(a, b) == IF a <= b THEN a ELSE b

Rerun ==
    /\ pc = "done"
    /\ calls < MaxCalls
    /\ \E d \in RerunDelays :
          cache_age' = IF cache.tag = "value" THEN Min(cache_age + d, TTL) ELSE 0
    /\ pc' = "idle"
    /\ driver' = "none"
    /\ exc' = NoException
    /\ consent' = "none"
    /\ show_more_buttons' = 0
    /\ clicked' = 0
    /\ rider_options' = <<>>
    /\ idx' = 1
    /\ rider_odds' = <<>>
    /\ ranked_df' = <<>>
    /\ view' = "none"
    /\ UNCHANGED <<cache, calls>>

Next ==
    \/ Call
    \/ CreateDriver
    \/ Navigate
    \/ Consent
    \/ FindShowMore
    \/ ClickShowMore
    \/ FindOptions
    \/ Extract
    \/ ExtractDone
    \/ Finally
    \/ Process
    \/ Render
    \/ Propagate
    \/ Rerun

Spec == Init /\ [][Next]_vars

(***************************************************************************)
(* Normalization on its own: get_ranked_odds_data at 'Process the scraped  *)
(* data', the session closed, with the quotes drawn from a bounded set and *)
(* from the scenarios of the specification.                                *)
(***************************************************************************)
Rider3 == <<"R", "i", "d", "e", "r", "3">>

HugeNegative == <<"-", "1">> \o [i \in 1..18 |-> "0"]

QuoteNames == {Rider1, Rider2, Rider3, AlleAnderen}

OddsTexts ==
    { <<"-", "2", "5", "0">>, <<"+", "4", "0", "0">>, <<"4", "0", "0">>,
      <<"0">>, <<"a", "b", "c">>, <<"1", ",", "5", "0">>, HugeNegative }

Quote(name, odds) == [Rider |-> name, Odds |-> odds]

EndToEndQuotes ==
    << Quote(Rider1, <<"-", "2", "5", "0">>),
       Quote(Rider2, <<"+", "4", "0", "0">>),
       Quote(AlleAnderen, <<"+", "1", "0", "0", "0">>) >>

DecimalQuotes ==
    << Quote(<<"A">>, <<"1", ",", "5", "0">>),
       Quote(<<"B">>, <<"a", "b", "c">>),
       Quote(<<"C">>, <<"3", ",", "0", "0">>) >>

TenQuotes == << Quote(<<"A">>, <<"1", "0", ",", "0", "0">>) >>

QuoteSeqs ==
    SeqsUpTo({Quote(n, o) : n \in QuoteNames, o \in OddsTexts}, MaxQuotes)
        \cup {EndToEndQuotes, DecimalQuotes, TenQuotes}

InitNorm ==
    /\ pc = "process"
    /\ driver = "quit"
    /\ exc = NoException
    /\ consent = "timeout"
    /\ show_more_buttons = 0
    /\ clicked = 0
    /\ rider_odds \in QuoteSeqs
    /\ rider_options =
           [i \in 1..Len(rider_odds) |->
               Option(Returned(rider_odds[i].Rider), Returned(rider_odds[i].Odds))]
    /\ idx = Len(rider_odds) + 1
    /\ ranked_df = <<>>
    /\ view = "none"
    /\ cache = NoEntry
    /\ cache_age = 0
    /\ calls = 1

NextNorm == Process

SpecNorm == InitNorm /\ [][NextNorm]_vars

(***************************************************************************)
(* Properties.                                                             *)
(***************************************************************************)
Riders(df) == {df[i].Rider : i \in 1..Len(df)}

\* The first quote of the input that names rider n.
FirstQuote(quotes, n) ==
    quotes[CHOOSE i \in 1..Len(quotes) :
              /\ quotes[i].Rider = n
              /\ \A j \in 1..(i - 1) : quotes[j].Rider # n]

Entry(rank, name, odds) == [Rank |-> rank, Rider |-> name, Odds |-> odds]

\* C1: once the browser session has been created, no terminal state of a
\* fetch (returned or raised, and whatever follows) has it unclosed.
SessionClosedOnExit ==
    (pc \in {"process", "returned", "raised", "done"} /\ driver # "none")
        => driver = "quit"

SessionClosedAfterFailure ==
    pc = "raised" /\ exc.at = "get" /\ driver = "quit"

\* C2: normalization never raises: every quote sequence is turned into a
\* ranking or an empty result, a quote with odds "0" being dropped.
NormalizationNeverRaises ==
    pc # "raised"

\* C3: a ranked entry whose quote parses as a non-zero integer v has odds
\* v/100 + 1 if v > 0 and 100/|v| + 1 if v < 0 (for |v| in the range where
\* the float is the exact quotient), and the end-to-end scenario yields
\* exactly (1, Rider1, 1.40), (2, Rider2, 5.00).
AmericanOddsFormula ==
    pc = "returned" =>
        /\ \A i \in 1..Len(ranked_df) :
              LET v == int(FirstQuote(rider_odds, ranked_df[i].Rider).Odds).val
                  a == MagValue(v.mag)
                  odds == ranked_df[i].Odds
              IN  Len(v.mag) <= MaxExactDigits =>
                      IF v.neg THEN odds[1] * a = odds[2] * (100 + a)
                               ELSE odds[1] * 100 = odds[2] * (a + 100)
        /\ rider_odds = EndToEndQuotes =>
              ranked_df = <<Entry(1, Rider1, <<7, 5>>), Entry(2, Rider2, <<5, 1>>)>>

EndToEndRanked ==
    pc = "returned" /\ rider_odds = EndToEndQuotes /\ Len(ranked_df) = 2

\* C5: in every ranked output the odds are non-decreasing along the sequence
\* and the ranks are 1..n in order, also among entries with equal odds.
SortedWithDenseRanks ==
    pc = "returned" =>
        \A i \in 1..Len(ranked_df) :
            /\ ranked_df[i].Rank = i
            /\ i < Len(ranked_df) =>
                   RatLeq(ranked_df[i].Odds, ranked_df[i + 1].Odds)

ThreeRankedWithTie ==
    /\ pc = "returned"
    /\ Len(ranked_df) = 3
    /\ ranked_df[2].Odds = ranked_df[3].Odds
    /\ RatLess(ranked_df[1].Odds, ranked_df[2].Odds)
    /\ RatLess(convert_american_to_decimal(rider_odds[3].Odds).val,
               convert_american_to_decimal(rider_odds[1].Odds).val)

HasComma(text) == \E k \in 1..Len(text) : text[k] = ","

\* C4 as stated: "1,50" converts to 1.50 and "10,00" to 10.00, so the
\* quotes (A, "1,50"), (B, "abc"), (C, "3,00") rank A first and C second.
DecimalCommaParsed ==
    pc = "returned" =>
        /\ rider_odds = DecimalQuotes =>
              ranked_df = <<Entry(1, <<"A">>, <<3, 2>>), Entry(2, <<"C">>, <<3, 1>>)>>
        /\ rider_odds = TenQuotes => ranked_df = <<Entry(1, <<"A">>, <<10, 1>>)>>

\* C4 as amended: odds written with a comma do not parse; the quote is
\* dropped like any other unparsable one and never ranked, so the quotes
\* (A, "1,50"), (B, "abc"), (C, "3,00") and (A, "10,00") give empty rankings.
DecimalCommaDropped ==
    /\ pc = "returned" =>
          \A i \in 1..Len(ranked_df) :
              ~HasComma(FirstQuote(rider_odds, ranked_df[i].Rider).Odds)
    /\ (pc # "process" /\ rider_odds \in {DecimalQuotes, TenQuotes}) =>
          pc = "returned" /\ ranked_df = <<>>

DecimalScenarioEmpty ==
    pc = "returned" /\ rider_odds = DecimalQuotes /\ ranked_df = <<>>

EntriesOf(df, n) == {i \in 1..Len(df) : df[i].Rider = n}

DistinctRiders(df) ==
    \A i, j \in 1..Len(df) : df[i].Rider = df[j].Rider => i = j

\* C6 as stated: names in the output are pairwise distinct, and of two
\* quotes with the same name and different raw odds exactly one ranked entry
\* survives, with the odds of the first.
FirstOccurrenceSurvives ==
    pc = "returned" =>
        /\ DistinctRiders(ranked_df)
        /\ \A i, j \in 1..Len(rider_odds) :
              (i < j /\ rider_odds[i].Rider = rider_odds[j].Rider
                     /\ rider_odds[i].Odds # rider_odds[j].Odds) =>
                  LET n == rider_odds[i].Rider
                  IN  /\ Cardinality(EntriesOf(ranked_df, n)) = 1
                      /\ \A k \in EntriesOf(ranked_df, n) :
                            ranked_df[k].Odds =
                                convert_american_to_decimal(
                                    FirstQuote(rider_odds, n).Odds).val

\* C6 as amended: names in the output are pairwise distinct and only the
\* first quote of a name counts: the name is ranked, once and with the odds
\* of that first quote, exactly when it is not the placeholder and the first
\* quote's odds convert; later quotes of the name never contribute.
FirstOccurrenceDecides ==
    pc = "returned" =>
        /\ DistinctRiders(ranked_df)
        /\ \A n \in Riders(rider_odds) :
              LET c == convert_american_to_decimal(FirstQuote(rider_odds, n).Odds)
              IN  IF n # AlleAnderen /\ c.tag = "return" /\ c.val # None
                  THEN /\ Cardinality(EntriesOf(ranked_df, n)) = 1
                       /\ \A k \in EntriesOf(ranked_df, n) : ranked_df[k].Odds = c.val
                  ELSE EntriesOf(ranked_df, n) = {}

DuplicateResolvedToFirst ==
    /\ pc = "returned"
    /\ Len(rider_odds) >= 2
    /\ rider_odds[1].Rider = rider_odds[2].Rider
    /\ rider_odds[1].Odds = <<"+", "4", "0", "0">>
    /\ rider_odds[2].Odds = <<"-", "2", "5", "0">>
    /\ \E k \in 1..Len(ranked_df) :
          ranked_df[k].Rider = rider_odds[1].Rider /\ ranked_df[k].Odds = <<5, 1>>

\* C7: no entry named 'Alle anderen' is ever ranked, whatever its odds and
\* position, and every other name whose (first) quote converts is ranked.
SentinelNeverRanked ==
    pc = "returned" =>
        /\ AlleAnderen \notin Riders(ranked_df)
        /\ \A n \in Riders(rider_odds) \ {AlleAnderen} :
              LET c == convert_american_to_decimal(FirstQuote(rider_odds, n).Odds)
              IN  (c.tag = "return" /\ c.val # None) => n \in Riders(ranked_df)

SentinelWithBestOddsFiltered ==
    /\ pc = "returned"
    /\ Len(rider_odds) = 3
    /\ rider_odds[2] = Quote(AlleAnderen, <<"-", "2", "5", "0">>)
    /\ Riders(ranked_df) = {Rider1, Rider2}

Same(a, b) == a.tag = b.tag /\ a.val = b.val

Outcome == IF pc = "returned" THEN Returned(ranked_df) ELSE Raised(exc.type)

WithoutUnparsable(quotes) ==
    Pick(quotes, {i \in 1..Len(quotes) : int(quotes[i].Odds).tag = "return"}, 1)

\* C8 as stated: the ranked output equals the ranked output of the same
\* quotes with the unparsable ones removed (compared where both are rankings).
UnparsableRemovalEquivalent ==
    (pc = "returned" /\ Normalize(WithoutUnparsable(rider_odds)).tag = "return") =>
        ranked_df = Normalize(WithoutUnparsable(rider_odds)).val

\* C8 as amended: an unparsable quote is dropped after deduplication by
\* name and raises nothing itself: the outcome (the ranking, or the error of
\* another quote) is that of the quotes deduplicated by name, first
\* occurrence kept, with the unparsable ones then removed.
UnparsableDroppedAfterDedup ==
    pc \in {"returned", "raised"} =>
        Same(Outcome, Normalize(WithoutUnparsable(drop_duplicates(rider_odds))))

UnparsableDroppedOthersRanked ==
    /\ pc = "returned"
    /\ Len(rider_odds) = 3
    /\ rider_odds[2].Odds = <<"a", "b", "c">>
    /\ DistinctRiders(rider_odds)
    /\ Len(ranked_df) = 2

\* C9: every ranked entry has odds strictly greater than 1.0.
OddsAboveOne ==
    pc = "returned" =>
        \A i \in 1..Len(ranked_df) : RatLess(<<1, 1>>, ranked_df[i].Odds)

\* C10: when the session cannot be created or the navigation raises,
\* display_betting_view ends with its error notice on the page, not with an
\* exception.
AcquisitionFailureShowsNotice ==
    (pc = "done" /\ exc.at \in {"create", "get"}) => view = "error"

\* C11: a call made while an entry stored by an earlier call is younger than
\* 86400 seconds returns that entry and launches no browser session: the run
\* goes from the call straight to the returned value.
CachedValueReused ==
    (Fresh(cache, cache_age) /\ cache_age > 0 /\ pc # "idle") =>
        /\ pc \in {"returned", "done"}
        /\ driver = "none"
        /\ ranked_df = cache.val

CacheHitAtEndOfWindow ==
    /\ pc = "returned"
    /\ calls = 3
    /\ cache_age = TTL - 1
    /\ driver = "none"
    /\ Len(cache.val) = 2
    /\ ranked_df = cache.val

WellFormed(option) ==
    /\ option.name.tag = "return"
    /\ option.value.tag = "return"
    /\ \E k \in 1..Len(option.name.val) : option.name.val[k] # " "
    /\ \E k \in 1..Len(option.value.val) : option.value.val[k] # " "

QuotesOf(options) ==
    LET good == Pick(options, {i \in 1..Len(options) : WellFormed(options[i])}, 1)
    IN  [k \in 1..Len(good) |->
            Quote(strip(good[k].name.val), strip(good[k].value.val))]

\* C12: an option whose name or value lookup raises, or whose name or value
\* is empty after trimming, is skipped and nothing else: at every point of
\* the extraction, and when it has ended, the quotes extracted are exactly
\* the well-formed options seen so far, in document order.
ExtractionSkipsMalformedOnly ==
    pc \in {"extract", "finally", "process"} =>
        rider_odds = QuotesOf(SubSeq(rider_options, 1, idx - 1))

MalformedThenExtracted ==
    /\ pc = "finally"
    /\ exc = NoException
    /\ idx = 4
    /\ rider_options[1] = Option(NoSuchElement, Returned(<<"+", "4", "0", "0">>))
    /\ rider_options[2] = Option(Returned(Rider2), Returned(<<" ">>))
    /\ rider_options[3] =
           Option(Returned(Rider2 \o <<" ">>), Returned(<<" ", "+", "4", "0", "0">>))
    /\ rider_odds = <<Quote(Rider2, <<"+", "4", "0", "0">>)>>

\* C13: the consent step and the expand step never end the fetch, and when
\* the extraction starts every 'Mehr anzeigen' control found has been
\* activated.
ExpandControlsAllActivated ==
    /\ pc \in {"find_more", "click_more", "find_options"} => exc = NoException
    /\ pc = "extract" => clicked = show_more_buttons

====
